---------------------------- MODULE Spec2Model ----------------------------
(***************************************************************************)
(* The multi-threaded web server of examples/ch20-multi-threaded-web-server *)
(* as a state machine: the ThreadPool of src/lib.rs (a channel of jobs, a   *)
(* receiver shared under a Mutex, one thread per Worker) and the dispatcher *)
(* loop and connection handler of src/main.rs.                              *)
(***************************************************************************)
EXTENDS Integers, Sequences, FiniteSets, TLC

\* Largest pool size handed to ThreadPool::new, and the number of
\* connections the listener yields before the model stops accepting.
MaxSize == 2
MaxJobs == 3

NoWorker == -1
NoJob == 0

WorkerIds == 0 .. (MaxSize - 1)

----------------------------------------------------------------------------
\* Connections, as handle_connection sees them.

\* One item of BufReader::lines(): Ok(line) or Err (an I/O error or bytes
\* that are not UTF-8).
Ok(s) == [ok |-> TRUE, line |-> s]
Err == [ok |-> FALSE, line |-> ""]

\* A connection: what lines() yields, whether the peer then keeps the
\* connection open without sending more (the next read blocks) or closes it
\* (end of file), and whether write_all succeeds.
Conn(ls, open, wr) == [lines |-> ls, open |-> open, wr |-> wr]

FastConn == Conn(<<Ok("GET / HTTP/1.1"), Ok("")>>, TRUE, TRUE)
SleepConn == Conn(<<Ok("GET /sleep HTTP/1.1"), Ok("")>>, TRUE, TRUE)
MissingConn == Conn(<<Ok("GET /missing HTTP/1.1"), Ok("")>>, TRUE, TRUE)
\* The peer disconnects before it sends anything.
EmptyConn == Conn(<<>>, FALSE, TRUE)
\* Reading the request line fails.
ReadErrConn == Conn(<<Err>>, FALSE, TRUE)
\* The peer is gone when the response is written.
WriteErrConn == Conn(<<Ok("GET / HTTP/1.1"), Ok("")>>, FALSE, FALSE)
\* The peer sends a request line, never ends the headers, and stays connected.
HangConn == Conn(<<Ok("GET / HTTP/1.1")>>, TRUE, TRUE)

Conns ==
  {FastConn, SleepConn, EmptyConn, ReadErrConn, WriteErrConn, HangConn}

\* lines().map(unwrap).take_while(non-empty).collect(), item by item from
\* item i on: "panic" at an Err item, "done" at a blank line or at end of
\* file, "block" when the items run out on an open connection.
RECURSIVE Collect(_, _, _)
Collect(conn, i, acc) ==
  IF i > Len(conn.lines)
  THEN [st |-> IF conn.open THEN "block" ELSE "done", req |-> acc]
  ELSE IF ~conn.lines[i].ok
  THEN [st |-> "panic", req |-> acc]
  ELSE IF conn.lines[i].line = ""
  THEN [st |-> "done", req |-> acc]
  ELSE Collect(conn, i + 1, Append(acc, conn.lines[i].line))

http_request(conn) == Collect(conn, 1, <<>>)

\* A match whose last arm responds like the first.
ReadOutcomeNoNotFound(conn) ==
  LET r == http_request(conn)
  IN IF r.st # "done" THEN r.st
     ELSE IF r.req = <<>> THEN "panic"
     ELSE IF r.req[1] = "GET /sleep HTTP/1.1" THEN "sleep"
     ELSE "root"

\* How the reading part of handle_connection ends: "block", "panic" (the
\* unwrap of an Err line, or http_request[0] on an empty vector), or the arm
\* of the match: "root", "sleep", "other".
ReadOutcome(conn) ==
  LET r == http_request(conn)
  IN IF r.st # "done" THEN r.st
     ELSE IF r.req = <<>> THEN "panic"
     ELSE IF r.req[1] = "GET / HTTP/1.1" THEN "root"
     ELSE IF r.req[1] = "GET /sleep HTTP/1.1" THEN "sleep"
     ELSE "other"

\* A page file: present with its bytes, or absent.
File(bs) == [exists |-> TRUE, bytes |-> bs]
NoFile == [exists |-> FALSE, bytes |-> <<>>]

\* The page files beside the server: "hi!" and "404!".
PageFiles ==
  [f \in {"hello.html", "404.html"} |->
     IF f = "hello.html" THEN File(<<104, 105, 33>>) ELSE File(<<52, 48, 52, 33>>)]

\* The bytes of the string literals of send_response's format string and of
\* the reason phrases handle_connection passes.
Utf8(str) ==
  CASE str = "HTTP/1.1 " -> <<72, 84, 84, 80, 47, 49, 46, 49, 32>>
    [] str = " " -> <<32>>
    [] str = "\r\nContent-Length: " ->
         <<13, 10, 67, 111, 110, 116, 101, 110, 116, 45, 76, 101, 110, 103, 116, 104, 58, 32>>
    [] str = "\r\n\r\n" -> <<13, 10, 13, 10>>
    [] str = "OK" -> <<79, 75>>
    [] str = "NOT FOUND" -> <<78, 79, 84, 32, 70, 79, 85, 78, 68>>

\* Display of an unsigned integer: its decimal digits.
RECURSIVE Decimal(_)
Decimal(n) == IF n < 10 THEN <<48 + n>> ELSE Decimal(n \div 10) \o <<48 + (n % 10)>>

\* A Content-Length that counts the blank line before the body too.
ContentLengthWithSeparator(contents) == Len(contents) + 4

\* contents.len(): the length of the String in bytes.
ContentLength(contents) == Len(contents)

\* format!("HTTP/1.1 {code} {reason}\r\nContent-Length: {length}\r\n\r\n{contents}")
FormatResponse(code, reason, contents) ==
  Utf8("HTTP/1.1 ") \o Decimal(code) \o Utf8(" ") \o Utf8(reason)
    \o Utf8("\r\nContent-Length: ") \o Decimal(ContentLength(contents))
    \o Utf8("\r\n\r\n") \o contents

\* A call of send_response: its arguments.
Response(code, reason, filename) ==
  [code |-> code, reason |-> reason, filename |-> filename]

NoResponse == [code |-> 0, reason |-> "", filename |-> ""]

\* The call of send_response in each arm of the match.
ResponseFor(conn) ==
  IF ReadOutcome(conn) \in {"root", "sleep"}
  THEN Response(200, "OK", "hello.html")
  ELSE Response(404, "NOT FOUND", "404.html")

----------------------------------------------------------------------------
VARIABLES
  size,         \* the argument of ThreadPool::new
  mainPc,       \* where the main thread is
  nextId,       \* the id of the next Worker ThreadPool::new creates
  senderAlive,  \* the pool's mpsc::Sender exists
  arcCount,     \* strong count of the Arc<Mutex<Receiver>>
  lock,         \* the Worker holding the Mutex, or NoWorker
  poisoned,     \* the Mutex is poisoned
  queue,        \* the channel's content, oldest job first
  wpc,          \* where each Worker thread is
  wjob,         \* the job each Worker owns, or NoJob
  conns,        \* the connections accepted so far; job j handles conns[j]
  outcome,      \* per job: "pending", "returned", "panicked" (it unwound
                \* its Worker), "dropped" (with the Receiver) or "rejected"
                \* (send failed)
  resp,         \* per job: the response written to its connection
  runs,         \* per job: how many times a Worker received and called it
  files         \* the page files on disk, by name

vars ==
  <<size, mainPc, nextId, senderAlive, arcCount, lock, poisoned, queue, wpc,
    wjob, conns, outcome, resp, runs, files>>

mainVars == <<size, mainPc, nextId, senderAlive, files>>
jobVars == <<conns, outcome, resp, runs>>

\* fs::read_to_string(filename) in the call of send_response for conn.
PageOf(conn) == files[ResponseFor(conn).filename]

\* response.as_bytes(): what the call r of send_response hands to write_all.
Written(r) == FormatResponse(r.code, r.reason, files[r.filename].bytes)

Jobs == 1 .. Len(conns)
Queued(j) == \E i \in 1 .. Len(queue) : queue[i] = j

InJob == {"read", "sleep"}
Alive(w) == wpc[w] \notin {"unspawned", "dead"}
Running == mainPc # "exited"

Init ==
  /\ size \in 0 .. MaxSize
  /\ mainPc = "new"
  /\ nextId = 0
  /\ senderAlive = FALSE
  /\ arcCount = 0
  /\ lock = NoWorker
  /\ poisoned = FALSE
  /\ queue = <<>>
  /\ wpc = [w \in WorkerIds |-> "unspawned"]
  /\ wjob = [w \in WorkerIds |-> NoJob]
  /\ conns = <<>>
  /\ outcome = <<>>
  /\ resp = <<>>
  /\ runs = <<>>
  /\ files = PageFiles

----------------------------------------------------------------------------
\* The main thread: ThreadPool::new, then the accept loop.

\* ThreadPool::new without its assert.
NewUnchecked ==
  /\ mainPc = "new"
  /\ mainPc' = "spawn"
  /\ senderAlive' = TRUE
  /\ arcCount' = 1
  /\ UNCHANGED <<files, size, nextId, lock, poisoned, queue, wpc, wjob>>
  /\ UNCHANGED jobVars

\* ThreadPool::new up to the loop: the assert, then the channel and the Arc.
\* A failed assert panics the main thread before anything is created.
New ==
  /\ mainPc = "new"
  /\ IF size > 0
     THEN /\ mainPc' = "spawn"
          /\ senderAlive' = TRUE
          /\ arcCount' = 1
     ELSE /\ mainPc' = "unwound"
          /\ UNCHANGED <<senderAlive, arcCount>>
  /\ UNCHANGED <<files, size, nextId, lock, poisoned, queue, wpc, wjob>>
  /\ UNCHANGED jobVars

\* A loop over 1..size.
SpawnCountShort == size - 1

\* A loop over 0..=size.
SpawnCountInclusive == size + 1

\* The range of the loop, 0..size, ends before size.
SpawnCount == size

\* One iteration of `for id in 0..size`: Worker::new(id, Arc::clone(..))
\* spawns the thread, which starts at the top of its loop.
Spawn ==
  /\ mainPc = "spawn"
  /\ nextId < SpawnCount
  /\ wpc' = [wpc EXCEPT ![nextId] = "lock"]
  /\ arcCount' = arcCount + 1
  /\ nextId' = nextId + 1
  /\ UNCHANGED <<files, size, mainPc, senderAlive, lock, poisoned, queue, wjob>>
  /\ UNCHANGED jobVars

\* new returns a pool that keeps an Arc to the receiver.
NewReturnKeepsArc ==
  /\ mainPc = "spawn"
  /\ nextId = SpawnCount
  /\ mainPc' = "accept"
  /\ UNCHANGED <<files, size, nextId, senderAlive, arcCount, lock, poisoned, queue, wpc, wjob>>
  /\ UNCHANGED jobVars

\* The loop is over: new returns the pool and its own Arc goes out of scope.
NewReturn ==
  /\ mainPc = "spawn"
  /\ nextId = SpawnCount
  /\ mainPc' = "accept"
  /\ arcCount' = arcCount - 1
  /\ UNCHANGED <<files, size, nextId, senderAlive, lock, poisoned, queue, wpc, wjob>>
  /\ UNCHANGED jobVars

\* listener.incoming() yields Ok(stream): the next connection.
\* A loop that takes the next connection while the one before is still
\* to be dispatched.
AcceptEarly(c, n) ==
  /\ mainPc \in {"accept", "dispatch"}
  /\ Len(conns) < n
  /\ mainPc' = "dispatch"
  /\ conns' = Append(conns, c)
  /\ outcome' = Append(outcome, "pending")
  /\ resp' = Append(resp, NoResponse)
  /\ runs' = Append(runs, 0)
  /\ UNCHANGED <<files, size, nextId, senderAlive, arcCount, lock, poisoned, queue, wpc, wjob>>

Accept(c, n) ==
  /\ mainPc = "accept"
  /\ Len(conns) < n
  /\ mainPc' = "dispatch"
  /\ conns' = Append(conns, c)
  /\ outcome' = Append(outcome, "pending")
  /\ resp' = Append(resp, NoResponse)
  /\ runs' = Append(runs, 0)
  /\ UNCHANGED <<files, size, nextId, senderAlive, arcCount, lock, poisoned, queue, wpc, wjob>>

\* listener.incoming() yields Err: stream.unwrap() panics the main thread,
\* and unwinding main drops the pool, hence the Sender.
AcceptFail ==
  /\ mainPc = "accept"
  /\ mainPc' = "unwound"
  /\ senderAlive' = FALSE
  /\ UNCHANGED <<files, size, nextId, arcCount, lock, poisoned, queue, wpc, wjob>>
  /\ UNCHANGED jobVars

\* The Receiver exists as long as some Arc to it does.
ReceiverExists == arcCount > 0

\* A channel of capacity one (mpsc::sync_channel(1)): send waits while the
\* channel holds a job.
SendWaitsBounded == ReceiverExists /\ Len(queue) >= 1

\* mpsc::channel() is unbounded: send never waits.
SendWaits == FALSE

\* pool.execute(closure over the stream): box the job and send it. send
\* fails when the Receiver is gone, and the unwrap then panics main.
Execute ==
  /\ mainPc = "dispatch"
  /\ ~SendWaits
  /\ IF ReceiverExists
     THEN /\ queue' = Append(queue, Len(conns))
          /\ mainPc' = "accept"
          /\ UNCHANGED senderAlive
          /\ UNCHANGED outcome
     ELSE /\ mainPc' = "unwound"
          /\ senderAlive' = FALSE
          /\ outcome' = [outcome EXCEPT ![Len(conns)] = "rejected"]
          /\ UNCHANGED queue
  /\ UNCHANGED <<files, size, nextId, arcCount, lock, poisoned, wpc, wjob>>
  /\ UNCHANGED <<conns, resp, runs>>

\* The panicked main thread has unwound: the process exits and takes the
\* Worker threads with it.
Exit ==
  /\ mainPc = "unwound"
  /\ mainPc' = "exited"
  /\ UNCHANGED <<files, size, nextId, senderAlive, arcCount, lock, poisoned, queue, wpc, wjob>>
  /\ UNCHANGED jobVars

----------------------------------------------------------------------------
\* A Worker thread: loop { lock, recv, job() }.

\* A MutexGuard the thread holds is dropped when its scope ends.
DropGuard(w) == IF lock = w THEN NoWorker ELSE lock

\* The thread panics and unwinds: its guard is dropped (poisoning the
\* Mutex if it held one), the job it owns is dropped, and so is its Arc;
\* the last Arc drops the Receiver and the jobs still queued in it.
Unwind(w) ==
  /\ wpc' = [wpc EXCEPT ![w] = "dead"]
  /\ wjob' = [wjob EXCEPT ![w] = NoJob]
  /\ lock' = DropGuard(w)
  /\ poisoned' = (poisoned \/ lock = w)
  /\ arcCount' = arcCount - 1
  /\ queue' = IF arcCount = 1 THEN <<>> ELSE queue
  /\ outcome' = [j \in DOMAIN outcome |->
                   IF j = wjob[w] THEN "panicked"
                   ELSE IF arcCount = 1 /\ Queued(j) THEN "dropped"
                   ELSE outcome[j]]

\* receiver.lock().unwrap(): wait for the Mutex; a poisoned Mutex makes
\* lock() return Err and the unwrap panic.
Lock(w) ==
  /\ Running
  /\ wpc[w] = "lock"
  /\ lock = NoWorker
  /\ IF poisoned
     THEN /\ Unwind(w)
     ELSE /\ lock' = w
          /\ wpc' = [wpc EXCEPT ![w] = "recv"]
          /\ UNCHANGED <<arcCount, poisoned, queue, wjob, outcome>>
  /\ UNCHANGED mainVars
  /\ UNCHANGED <<conns, resp, runs>>

\* The guard kept for the whole iteration, as `while let Ok(job) =
\* receiver.lock().unwrap().recv()` keeps it.
RecvGuardHeld(w) == lock

\* `let job = ...recv().unwrap();`: the guard is a temporary of the let
\* statement and is dropped at its end.
RecvGuard(w) == DropGuard(w)

\* A channel that hands out the newest job first.
RecvIndexNewest(q) == Len(q)

\* The channel is a queue: recv() returns the message sent first.
RecvIndex(q) == 1

RecvJob(q) == q[RecvIndex(q)]

\* A receive that hands out the oldest job without removing it.
RecvRestKept(q) == q

\* recv() removes the job it returns.
RecvRest(q) == SubSeq(q, 1, RecvIndex(q) - 1) \o SubSeq(q, RecvIndex(q) + 1, Len(q))

\* One pass of the loop body with a job in the channel: recv() returns the
\* oldest job, the Worker prints "got a job; executing." and calls it.
Recv(w) ==
  /\ Running
  /\ wpc[w] = "recv"
  /\ lock = w
  /\ queue # <<>>
  /\ wjob' = [wjob EXCEPT ![w] = RecvJob(queue)]
  /\ runs' = [runs EXCEPT ![RecvJob(queue)] = @ + 1]
  /\ queue' = RecvRest(queue)
  /\ lock' = RecvGuard(w)
  /\ wpc' = [wpc EXCEPT ![w] = "read"]
  /\ UNCHANGED mainVars
  /\ UNCHANGED <<arcCount, poisoned, conns, outcome, resp>>

\* .recv().unwrap() with the channel empty and the Sender gone: recv
\* returns Err and the unwrap panics while the guard is held.
RecvErr(w) ==
  /\ Running
  /\ wpc[w] = "recv"
  /\ lock = w
  /\ queue = <<>>
  /\ ~senderAlive
  /\ Unwind(w)
  /\ UNCHANGED mainVars
  /\ UNCHANGED <<conns, resp, runs>>

\* A Worker that keeps the job it has called.
AfterCallKept(w) == wjob[w]

\* job() consumes the boxed FnOnce: once it has returned the Worker owns
\* no job.
AfterCall(w) == NoJob

\* send_response: read the page (read_to_string().unwrap()), format the
\* response and write_all().unwrap(). Written, the job returns, the stream
\* is closed and the Worker's loop starts over; a missing page or a failed
\* write panics.
send_response(w) ==
  IF PageOf(conns[wjob[w]]).exists /\ conns[wjob[w]].wr
  THEN /\ resp' = [resp EXCEPT ![wjob[w]] = ResponseFor(conns[wjob[w]])]
       /\ outcome' = [outcome EXCEPT ![wjob[w]] = "returned"]
       /\ wpc' = [wpc EXCEPT ![w] = "lock"]
       /\ wjob' = [wjob EXCEPT ![w] = AfterCall(w)]
       /\ lock' = DropGuard(w)
       /\ UNCHANGED <<arcCount, poisoned, queue>>
  ELSE /\ Unwind(w)
       /\ UNCHANGED resp

\* handle_connection once the request can be read: collect it, index its
\* first line, pick the arm of the match; the sleep arm sleeps, the others
\* respond. A panic unwinds the Worker thread: nothing in the job or in the
\* Worker's loop catches it.
handle_connection(w) ==
  /\ Running
  /\ wpc[w] = "read"
  /\ LET o == ReadOutcome(conns[wjob[w]])
     IN /\ o # "block"
        /\ IF o = "panic"
           THEN /\ Unwind(w)
                /\ UNCHANGED resp
           ELSE IF o = "sleep"
           THEN /\ wpc' = [wpc EXCEPT ![w] = "sleep"]
                /\ UNCHANGED <<arcCount, lock, poisoned, queue, wjob, outcome, resp>>
           ELSE send_response(w)
  /\ UNCHANGED mainVars
  /\ UNCHANGED <<conns, runs>>

\* thread::sleep(Duration::from_secs(5)) is over: the sleep arm responds.
Wake(w) ==
  /\ Running
  /\ wpc[w] = "sleep"
  /\ send_response(w)
  /\ UNCHANGED mainVars
  /\ UNCHANGED <<conns, runs>>

----------------------------------------------------------------------------
\* A step of the main thread, the next connection being one of K and the
\* listener yielding at most n connections.
MainStep(K, n) ==
  \/ New
  \/ Spawn
  \/ NewReturn
  \/ \E c \in K : Accept(c, n)
  \/ AcceptFail
  \/ Execute
  \/ Exit

WorkerStep(w) ==
  \/ Lock(w)
  \/ Recv(w)
  \/ RecvErr(w)
  \/ handle_connection(w)
  \/ Wake(w)

NextOver(K) == MainStep(K, MaxJobs) \/ \E w \in WorkerIds : WorkerStep(w)

Next == NextOver(Conns)

Spec == Init /\ [][Next]_vars

\* Scheduling: a thread that can take a step takes one. The steps of one
\* thread exclude one another, so each thread has one fairness condition.
\* The Mutex promises no order among the threads waiting for it, only that
\* one of them gets it. Connections arrive, and accept fails, when the
\* environment decides. The end of a sleep is kept apart.
FairnessButWake ==
  /\ WF_vars(New \/ Spawn \/ NewReturn \/ Execute \/ Exit)
  /\ WF_vars(\E w \in WorkerIds : Lock(w))
  /\ \A w \in WorkerIds : WF_vars(Recv(w) \/ RecvErr(w) \/ handle_connection(w))

Fairness ==
  /\ WF_vars(New \/ Spawn \/ NewReturn \/ Execute \/ Exit)
  /\ WF_vars(\E w \in WorkerIds : Lock(w))
  /\ \A w \in WorkerIds :
       WF_vars(Recv(w) \/ RecvErr(w) \/ handle_connection(w) \/ Wake(w))

\* The liveness properties are checked with one connection for each way a
\* job can end: it returns, returns after the sleep, panics, never returns.
PoolConns == {FastConn, SleepConn, EmptyConn, HangConn}

FairSpec == Init /\ [][NextOver(PoolConns)]_vars /\ Fairness

\* Starvation by jobs that never return is checked with connections whose
\* jobs return at once, return after the sleep, or never return: no job
\* panics, so a Worker is lost to the pool only by blocking.
StarveConns == {FastConn, SleepConn, HangConn}

StarveSpec == Init /\ [][NextOver(StarveConns)]_vars /\ Fairness

\* The behaviours in which a sleep may last for ever.
SleepSpec == Init /\ [][NextOver(PoolConns)]_vars /\ FairnessButWake

----------------------------------------------------------------------------
\* The server as main builds it: a pool of four Workers. The listener yields
\* one connection more than there are Workers, each a connection that sends
\* nothing or a request for /sleep.

PoolSize == 4

ServerWorkerIds == 0 .. (PoolSize - 1)

ServerConns == {EmptyConn, SleepConn}

ServerInit ==
  /\ size = PoolSize
  /\ mainPc = "new"
  /\ nextId = 0
  /\ senderAlive = FALSE
  /\ arcCount = 0
  /\ lock = NoWorker
  /\ poisoned = FALSE
  /\ queue = <<>>
  /\ wpc = [w \in ServerWorkerIds |-> "unspawned"]
  /\ wjob = [w \in ServerWorkerIds |-> NoJob]
  /\ conns = <<>>
  /\ outcome = <<>>
  /\ resp = <<>>
  /\ runs = <<>>
  /\ files = PageFiles

ServerNext ==
  MainStep(ServerConns, PoolSize + 1) \/ \E w \in ServerWorkerIds : WorkerStep(w)

ServerSpec == ServerInit /\ [][ServerNext]_vars

----------------------------------------------------------------------------
\* handle_connection and send_response on their own: one Worker of a pool
\* of one has received the job of one connection, and the connection and
\* the page files are any of a bounded set.

\* The most items lines() yields on a connection.
MaxLines == 2

\* What one item of lines() can be: a request line of each arm of the
\* match, request lines that differ from them in one detail, a header line,
\* the blank line, an error.
LineItems ==
  {Ok("GET / HTTP/1.1"), Ok("GET /sleep HTTP/1.1"), Ok("GET /missing HTTP/1.1"),
   Ok("GET / HTTP/1.0"), Ok("get /sleep http/1.1"), Ok("Host: localhost"),
   Ok(""), Err}

HandlerConns ==
  {Conn(ls, open, wr) :
     ls \in UNION {[1 .. n -> LineItems] : n \in 0 .. MaxLines},
     open \in BOOLEAN, wr \in BOOLEAN}

\* A page is absent, empty, short, or longer than nine bytes with a blank
\* line and a two-byte character in it.
Pages ==
  {NoFile, File(<<>>), File(<<104, 105, 33>>),
   File(<<60, 112, 62, 13, 10, 13, 10, 195, 169, 33, 10>>)}

HandlerInit ==
  /\ size = 1
  /\ mainPc = "accept"
  /\ nextId = 1
  /\ senderAlive = TRUE
  /\ arcCount = 1
  /\ lock = NoWorker
  /\ poisoned = FALSE
  /\ queue = <<>>
  /\ wpc = [w \in WorkerIds |-> IF w = 0 THEN "read" ELSE "unspawned"]
  /\ wjob = [w \in WorkerIds |-> IF w = 0 THEN 1 ELSE NoJob]
  /\ conns \in {<<c>> : c \in HandlerConns}
  /\ outcome = <<"pending">>
  /\ resp = <<NoResponse>>
  /\ runs = <<1>>
  /\ files \in [{"hello.html", "404.html"} -> Pages]

HandlerNext == \E w \in WorkerIds : handle_connection(w) \/ Wake(w)

HandlerSpec == HandlerInit /\ [][HandlerNext]_vars

\* Two connections side by side: each of the two Workers of a pool of two
\* has received the job of one of them. The two connections begin with the
\* same line and both peers take the response; what follows the first line,
\* and whether the peer then closes, is any of the bounded set for each.
SameRequestLine(c, d) ==
  /\ Len(c.lines) >= 1 /\ Len(d.lines) >= 1
  /\ c.lines[1].ok /\ d.lines[1] = c.lines[1]
  /\ c.wr /\ d.wr

PairInit ==
  /\ size = 2
  /\ mainPc = "accept"
  /\ nextId = 2
  /\ senderAlive = TRUE
  /\ arcCount = 2
  /\ lock = NoWorker
  /\ poisoned = FALSE
  /\ queue = <<>>
  /\ wpc = [w \in WorkerIds |-> IF w < 2 THEN "read" ELSE "unspawned"]
  /\ wjob = [w \in WorkerIds |-> IF w < 2 THEN w + 1 ELSE NoJob]
  /\ conns \in {<<c, d>> : c \in HandlerConns, d \in HandlerConns}
  /\ SameRequestLine(conns[1], conns[2])
  /\ outcome = <<"pending", "pending">>
  /\ resp = <<NoResponse, NoResponse>>
  /\ runs = <<1, 1>>
  /\ files = PageFiles

PairSpec == PairInit /\ [][HandlerNext]_vars

TypeOK ==
  /\ size \in 0 .. MaxSize
  /\ mainPc \in {"new", "spawn", "accept", "dispatch", "unwound", "exited"}
  /\ nextId \in 0 .. size
  /\ \A j \in Jobs : outcome[j] \in {"pending", "returned", "panicked", "dropped", "rejected"}
  /\ senderAlive \in BOOLEAN
  /\ arcCount \in 0 .. (MaxSize + 1)
  /\ lock \in WorkerIds \cup {NoWorker}
  /\ poisoned \in BOOLEAN
  /\ \A i \in 1 .. Len(queue) : queue[i] \in Jobs
  /\ wpc \in [WorkerIds -> {"unspawned", "lock", "recv", "dead"} \cup InJob]
  /\ \A w \in WorkerIds : wjob[w] \in Jobs \cup {NoJob}
  /\ Len(conns) <= MaxJobs
  /\ \A j \in Jobs : conns[j] \in Conns
  /\ Len(outcome) = Len(conns) /\ Len(resp) = Len(conns)
  /\ Len(runs) = Len(conns)
  /\ files = PageFiles
  /\ \A j \in Jobs : resp[j] \in {NoResponse, ResponseFor(FastConn), ResponseFor(MissingConn)}

----------------------------------------------------------------------------
\* Properties of the pool.

Idle(w) == wpc[w] \in {"lock", "recv"}
Executing(j) == runs[j] >= 1 /\ outcome[j] = "pending"
Finished(j) == outcome[j] \in {"returned", "panicked"}
Owners(j) == {w \in WorkerIds : wjob[w] = j}

\* C1: every job is received by at most one Worker and called at most
\* once: no job is received twice, no two Workers own the same job, and a
\* job a Worker has received is no longer in the channel.
C1_JobClaimedAtMostOnce ==
  \A j \in Jobs :
    /\ runs[j] <= 1
    /\ Cardinality(Owners(j)) <= 1
    /\ runs[j] >= 1 => ~Queued(j)

\* Two Workers own two different jobs at the same time, a third job waits.
C1_Witness ==
  \E v, w \in WorkerIds :
    /\ v # w
    /\ wjob[v] # NoJob /\ wjob[w] # NoJob /\ wjob[v] # wjob[w]
    /\ runs[wjob[v]] = 1 /\ runs[wjob[w]] = 1
    /\ queue # <<>>

\* Job j was handed to the channel: execute's send succeeded.
Submitted(j) ==
  IF j \in Jobs
  THEN outcome[j] # "rejected" /\ ~(mainPc = "dispatch" /\ j = Len(conns))
  ELSE FALSE

\* A Worker received job j and called it.
Ran(j) == IF j \in Jobs THEN runs[j] >= 1 ELSE FALSE

\* C2: under fair scheduling, in every behaviour in which again and again
\* some Worker of the running process is waiting for a job (one stays alive
\* and the jobs it runs return), no submitted job stays unreceived for
\* ever: every job execute has sent is eventually received and called.
C2_SubmittedJobEventuallyRuns ==
  \A j \in 1 .. MaxJobs :
    ([]<>(Running /\ \E w \in WorkerIds : Idle(w)))
      => []<>(Submitted(j) => Ran(j))

\* A job waited in the channel behind the others while every Worker was
\* busy, and has now run.
C2_Witness ==
  /\ Len(conns) = MaxJobs
  /\ \A j \in Jobs : runs[j] = 1
  /\ \E j \in Jobs : outcome[j] = "panicked"
  /\ \E j \in Jobs : outcome[j] = "returned"

\* The first `size` jobs never return and all of them were submitted.
BlockingJobsSubmitted ==
  IF size >= 1 /\ Len(conns) >= size
  THEN \A j \in 1 .. size :
         /\ ReadOutcome(conns[j]) = "block"
         /\ Queued(j) \/ runs[j] >= 1
  ELSE FALSE

\* Each of the first `size` jobs is executing, on a Worker of its own.
AllBlockingJobsExecuting ==
  IF Len(conns) >= size
  THEN /\ \A j \in 1 .. size :
            Executing(j) /\ \E w \in WorkerIds : wjob[w] = j /\ wpc[w] = "read"
       /\ Cardinality({w \in WorkerIds : wpc[w] \in InJob}) = size
  ELSE FALSE

\* C3: for every pool size n >= 1, once n jobs that do not return are
\* submitted to a new pool of n Workers, under fair scheduling a state
\* follows in which all n are executing at once, each on its own Worker
\* (unless the process exits first).
C3_AllWorkersRunAtOnce == BlockingJobsSubmitted ~> (AllBlockingJobsExecuting \/ ~Running)

\* A pool of the largest size with every Worker inside a blocking job.
C3_Witness == size = MaxSize /\ BlockingJobsSubmitted /\ AllBlockingJobsExecuting

\* C4: never more than `size` jobs are executing at once, and a job after
\* the first `size` has started only if an earlier job has finished.
C4_AtMostSizeJobsExecuting ==
  /\ Cardinality({j \in Jobs : Executing(j)}) <= size
  /\ \A j \in Jobs :
       (j > size /\ runs[j] >= 1) => \E i \in 1 .. (j - 1) : Finished(i)

\* The pool is full, and the job after the first `size` has started.
C4_Witness ==
  /\ size >= 1
  /\ Cardinality({j \in Jobs : Executing(j)}) = size
  /\ \E j \in Jobs : j > size /\ Executing(j)

\* C5: ThreadPool::new(0) panics before it creates the channel or spawns a
\* Worker: with size 0 there is never a Sender, an Arc to a Receiver, a
\* Worker thread or a pool to accept connections for.
C5_ZeroSizePanicsFirst ==
  size = 0 =>
    /\ mainPc \in {"new", "unwound", "exited"}
    /\ ~senderAlive
    /\ arcCount = 0
    /\ \A w \in WorkerIds : wpc[w] = "unspawned"
    /\ conns = <<>>

\* new(0) has panicked.
C5_Witness == size = 0 /\ mainPc = "unwound"

\* C6: whenever main is in execute and a Worker is alive, execute can
\* complete at once, on its own: the job is appended to the channel and
\* main is back at accept, whatever the Workers are doing and however many
\* jobs wait in the channel.
C6_ExecuteNeverWaits ==
  (mainPc = "dispatch" /\ \E w \in WorkerIds : Alive(w))
    => ENABLED (/\ Execute
                /\ mainPc' = "accept"
                /\ queue' = Append(queue, Len(conns))
                /\ UNCHANGED <<wpc, wjob, lock>>)

\* main is in execute while every Worker is inside a job and a job waits.
C6_Witness ==
  /\ mainPc = "dispatch"
  /\ size >= 1
  /\ \A w \in 0 .. (size - 1) : wpc[w] \in InJob
  /\ queue # <<>>

\* C7: execute succeeds (the job is enqueued, main goes on to accept)
\* exactly while some Worker thread is alive, and panics main exactly when
\* every Worker thread has terminated.
C7_ExecuteFailsIffNoWorker ==
  [][(mainPc = "dispatch" /\ mainPc' # "dispatch") =>
       IF \E w \in WorkerIds : Alive(w)
       THEN mainPc' = "accept" /\ queue' = Append(queue, Len(conns))
       ELSE mainPc' = "unwound" /\ outcome'[Len(conns)] = "rejected" /\ queue' = queue]_vars

\* execute has panicked: every Worker was dead.
C7_Witness ==
  /\ size >= 1
  /\ mainPc = "unwound"
  /\ conns # <<>>
  /\ outcome[Len(conns)] = "rejected"
  /\ \A w \in 0 .. (size - 1) : wpc[w] = "dead"

\* C8: with a pool of two or more, when the first connection asked for
\* /sleep and its job is still pending while the second, asking for /, is
\* in the channel, the second job gets its 200 response while the first is
\* still pending, even if the sleep never ends; only the end of the sleep
\* (or the exit of the process) can come first.
SlowRunningFastQueued ==
  IF size >= 2 /\ Len(conns) >= 2
  THEN /\ ReadOutcome(conns[1]) = "sleep" /\ Executing(1)
       /\ conns[2] = FastConn /\ Queued(2)
  ELSE FALSE

FastDoneOrSlowAwake ==
  IF Len(conns) >= 2
  THEN \/ outcome[2] = "returned" /\ resp[2].code = 200 /\ Executing(1)
       \/ ~Executing(1)
  ELSE FALSE

C8_FastNotDelayedBySlow == SlowRunningFastQueued ~> (FastDoneOrSlowAwake \/ ~Running)

\* The fast response is written while the slow job sleeps.
C8_Witness ==
  /\ size >= 2
  /\ Len(conns) >= 2
  /\ conns[1] = SleepConn /\ conns[2] = FastConn
  /\ \E w \in WorkerIds : wjob[w] = 1 /\ wpc[w] = "sleep"
  /\ outcome[2] = "returned" /\ resp[2].code = 200

\* Reading the request or writing the response fails with an I/O error.
IoError(conn) == http_request(conn).st = "panic" \/ (ReadOutcome(conn) \in {"root", "sleep", "other"} /\ ~conn.wr)

\* No line is collected: http_request is empty.
NoRequestLine(conn) == http_request(conn) = [st |-> "done", req |-> <<>>]

\* C9: an I/O error while reading the request or writing the response ends
\* only the job: the Worker that ran it is back at the top of its loop.
C9_IoErrorContained ==
  [][\A w \in WorkerIds :
       (wpc[w] \in InJob /\ IoError(conns[wjob[w]]) /\ wpc'[w] \notin InJob)
         => wpc'[w] = "lock"]_vars

\* C10: after a connection that sent no request line, the Worker that
\* handled it is alive and back at the top of its loop.
C10_EmptyRequestContained ==
  [][\A w \in WorkerIds :
       (wpc[w] = "read" /\ NoRequestLine(conns[wjob[w]]) /\ wpc'[w] # "read")
         => (Alive(w)' /\ wpc'[w] = "lock")]_vars

----------------------------------------------------------------------------
\* Properties of the connection handler.

\* The first line the peer sent, when there is one.
HasRequestLine(conn) == IF Len(conn.lines) >= 1 THEN conn.lines[1].ok ELSE FALSE
RequestLine(conn) == conn.lines[1].line

\* C11: the request line is classified by exact match. Whenever a response
\* is written, the connection had a request line; for exactly
\* "GET / HTTP/1.1" the response is 200 OK with the success page, written
\* without sleeping; for exactly "GET /sleep HTTP/1.1" it is the same
\* response, written after the sleep; for every other request line it is
\* 404 NOT FOUND with the not-found page, written without sleeping. Only
\* the sleep request line makes the handler sleep.
C11_ExactMatchClassifies ==
  [][\A w \in WorkerIds :
       /\ (wpc[w] \in InJob /\ wpc'[w] = "lock") =>
            /\ HasRequestLine(conns[wjob[w]])
            /\ LET j == wjob[w]
                   line == RequestLine(conns[j])
               IN /\ outcome'[j] = "returned"
                  /\ line = "GET / HTTP/1.1" =>
                       /\ wpc[w] = "read"
                       /\ resp'[j].code = 200 /\ resp'[j].reason = "OK"
                       /\ resp'[j].filename = "hello.html"
                  /\ line = "GET /sleep HTTP/1.1" =>
                       /\ wpc[w] = "sleep"
                       /\ resp'[j].code = 200 /\ resp'[j].reason = "OK"
                       /\ resp'[j].filename = "hello.html"
                  /\ line \notin {"GET / HTTP/1.1", "GET /sleep HTTP/1.1"} =>
                       /\ wpc[w] = "read"
                       /\ resp'[j].code = 404 /\ resp'[j].reason = "NOT FOUND"
                       /\ resp'[j].filename = "404.html"
       /\ (wpc[w] = "read" /\ wpc'[w] = "sleep") =>
            /\ HasRequestLine(conns[wjob[w]])
            /\ RequestLine(conns[wjob[w]]) = "GET /sleep HTTP/1.1"]_vars

\* A request for /missing was answered with 404 and the not-found page.
C11_Witness ==
  /\ Len(conns) = 1
  /\ HasRequestLine(conns[1])
  /\ RequestLine(conns[1]) = "GET /missing HTTP/1.1"
  /\ outcome[1] = "returned"
  /\ resp[1].code = 404 /\ resp[1].filename = "404.html"

\* Reading a response back as a client does: the position of the first
\* occurrence of pat in b (0 when there is none), a decimal number.
Find(b, pat) ==
  LET hits == {i \in 1 .. (Len(b) - Len(pat) + 1) : SubSeq(b, i, i + Len(pat) - 1) = pat}
  IN IF hits = {} THEN 0 ELSE CHOOSE i \in hits : \A k \in hits : i <= k

IsDecimal(ds) ==
  /\ ds # <<>>
  /\ \A i \in 1 .. Len(ds) : ds[i] \in 48 .. 57
  /\ Len(ds) > 1 => ds[1] # 48

RECURSIVE ParseDecimal(_)
ParseDecimal(ds) ==
  IF ds = <<>> THEN 0
  ELSE 10 * ParseDecimal(SubSeq(ds, 1, Len(ds) - 1)) + (ds[Len(ds)] - 48)

\* The head ends at the first blank line; the status line is its first
\* line, the header line the rest, and the body is all that follows.
ParseResponse(b) ==
  LET e == Find(b, <<13, 10, 13, 10>>)
      head == SubSeq(b, 1, e - 1)
      l == Find(head, <<13, 10>>)
  IN [ok |-> e > 0 /\ l > 0,
      status |-> SubSeq(head, 1, l - 1),
      header |-> SubSeq(head, l + 2, Len(head)),
      body |-> SubSeq(b, e + 4, Len(b))]

\* "Content-Length: "
ContentLengthPrefix ==
  <<67, 111, 110, 116, 101, 110, 116, 45, 76, 101, 110, 103, 116, 104, 58, 32>>

\* C12: the bytes of every response written are "HTTP/1.1 <code> <reason>", a line break,
\* "Content-Length: <n>", a blank line, and the body, where the status line
\* is "HTTP/1.1 200 OK" with the success page or "HTTP/1.1 404 NOT FOUND"
\* with the not-found page, n is the decimal number of bytes of the body,
\* and the body is the page file byte for byte.
C12_ResponseWellFormed ==
  \A j \in Jobs :
    outcome[j] = "returned" =>
      LET p == ParseResponse(Written(resp[j]))
          n == SubSeq(p.header, Len(ContentLengthPrefix) + 1, Len(p.header))
      IN /\ p.ok
         /\ \/ /\ resp[j].code = 200
               /\ p.status = <<72, 84, 84, 80, 47, 49, 46, 49, 32, 50, 48, 48, 32, 79, 75>>
               /\ p.body = files["hello.html"].bytes
            \/ /\ resp[j].code = 404
               /\ p.status = <<72, 84, 84, 80, 47, 49, 46, 49, 32, 52, 48, 52, 32,
                               78, 79, 84, 32, 70, 79, 85, 78, 68>>
               /\ p.body = files["404.html"].bytes
         /\ SubSeq(p.header, 1, Len(ContentLengthPrefix)) = ContentLengthPrefix
         /\ IsDecimal(n)
         /\ ParseDecimal(n) = Len(p.body)

\* A 404 response was written whose body is longer than nine bytes and has
\* a blank line in it.
C12_Witness ==
  /\ Len(conns) = 1
  /\ outcome[1] = "returned"
  /\ resp[1].code = 404
  /\ Len(files["404.html"].bytes) >= 10
  /\ Find(files["404.html"].bytes, <<13, 10, 13, 10>>) > 0
  /\ Len(Written(resp[1])) > Len(files["404.html"].bytes)

----------------------------------------------------------------------------
\* More properties of the pool.

LiveWorkers == {w \in WorkerIds : Alive(w)}

\* C13: a panic inside a job ends the Worker that runs it and no other.
\* In the step in which a Worker dies in a job, the number of live Workers
\* drops by exactly one, every other Worker is where it was, the dying
\* Worker does not hold the lock, the lock and its poison flag are as they
\* were, and while another Worker lives the receiver and the jobs in the
\* channel stay; a dead Worker stays dead.
C13_JobPanicKillsOneWorker ==
  [][\A w \in WorkerIds :
       /\ (wpc[w] \in InJob /\ wpc'[w] = "dead") =>
            /\ \A v \in WorkerIds \ {w} : wpc'[v] = wpc[v] /\ wjob'[v] = wjob[v]
            /\ Cardinality(LiveWorkers') = Cardinality(LiveWorkers) - 1
            /\ lock # w /\ lock' = lock
            /\ poisoned' = poisoned
            /\ (LiveWorkers' # {}) => (ReceiverExists' /\ queue' = queue)
       /\ wpc[w] = "dead" => wpc'[w] = "dead"]_vars

\* One Worker died in a job that panicked; the other holds the unpoisoned
\* lock and is about to receive the next job.
C13_Witness ==
  /\ ~poisoned
  /\ queue # <<>>
  /\ \E j \in Jobs : outcome[j] = "panicked"
  /\ \E v, w \in WorkerIds : wpc[w] = "dead" /\ wpc[v] = "recv" /\ lock = v

\* C14: in every state of the running server, a pool of four Workers
\* behind the dispatcher loop, the receiving side of the channel exists, and
\* no submission has failed.
C14_ReceiverAlwaysExists ==
  /\ mainPc \in {"accept", "dispatch"} => ReceiverExists
  /\ \A j \in Jobs : outcome[j] # "rejected"

\* C15: a Worker holds at most one job, and takes the next only when the
\* one before is over. A Worker owns a job exactly while it is inside it,
\* that job is executing, there are as many executing jobs as Workers inside
\* a job, and a Worker comes to own a job only in a receive, owning none.
C15_OneJobPerWorker ==
  /\ [](/\ \A w \in WorkerIds :
            /\ wjob[w] # NoJob <=> wpc[w] \in InJob
            /\ wjob[w] # NoJob => Executing(wjob[w])
        /\ Cardinality({j \in Jobs : Executing(j)})
             = Cardinality({w \in WorkerIds : wpc[w] \in InJob}))
  /\ [][\A w \in WorkerIds :
          (wjob'[w] # wjob[w] /\ wjob'[w] # NoJob)
            => (wjob[w] = NoJob /\ wpc[w] = "recv" /\ wpc'[w] \in InJob)]_vars

\* The only Worker of a pool of one is inside the second job, the first
\* one has returned.
C15_Witness ==
  /\ size = 1
  /\ Len(conns) >= 2
  /\ outcome[1] = "returned"
  /\ wjob[0] = 2 /\ wpc[0] \in InJob

\* C19: no Worker holds the lock on the shared receiver while it executes
\* a job: the holder of the lock is a Worker waiting in recv, and a Worker
\* that enters a job gives the lock up in that very step.
C19_LockFreeWhileExecuting ==
  /\ [](\A w \in WorkerIds :
          /\ wpc[w] \in InJob => lock # w
          /\ lock = w => wpc[w] = "recv")
  /\ [][\A w \in WorkerIds :
          (wpc[w] = "recv" /\ wpc'[w] \in InJob) => (lock = w /\ lock' = NoWorker)]_vars

\* One Worker is inside a job while another holds the lock, waiting in
\* recv on the empty channel.
C19_Witness ==
  \E v, w \in WorkerIds :
    /\ wpc[v] \in InJob /\ Executing(wjob[v])
    /\ wpc[w] = "recv" /\ lock = w
    /\ queue = <<>>

\* C20: jobs are received in the order in which the main thread sent
\* them: of two jobs sent, the later one is received by a Worker only when
\* the earlier one has been received.
C20_ClaimedInSubmissionOrder ==
  \A a, b \in Jobs :
    (a < b /\ Submitted(a) /\ Submitted(b) /\ runs[b] >= 1) => runs[a] >= 1

\* The second job has returned while the first, received before it, is
\* still executing and the third waits in the channel.
C20_Witness ==
  /\ Len(conns) = 3
  /\ Executing(1)
  /\ outcome[2] = "returned"
  /\ queue = <<3>>

----------------------------------------------------------------------------
\* Properties of the dispatcher loop.

\* How many times job j is in the channel.
Occurrences(j) == Cardinality({i \in DOMAIN queue : queue[i] = j})

\* Where the one job of a submitted connection is: in the channel, with the
\* Worker that received it, or dropped with the channel.
Copies(j) ==
  Occurrences(j) + runs[j] + (IF outcome[j] = "dropped" THEN 1 ELSE 0)

\* C17: the dispatcher loop accepts, then dispatches, in turn. A connection
\* is accepted only when every connection before it has been submitted, and
\* the step leaves the channel alone; the next send puts the job of that
\* connection, and nothing else, at the back of the channel. So every
\* submitted connection has exactly one job, only the newest connection can
\* be without one, and the channel holds the jobs in acceptance order.
C17_AcceptThenDispatch ==
  /\ [](/\ \A j \in Jobs :
            IF Submitted(j) THEN Copies(j) = 1
            ELSE Copies(j) = 0 /\ j = Len(conns)
        /\ \A i, k \in DOMAIN queue : i < k => queue[i] < queue[k])
  /\ [][/\ Len(conns') # Len(conns) =>
             /\ mainPc = "accept" /\ mainPc' = "dispatch"
             /\ Len(conns') = Len(conns) + 1
             /\ SubSeq(conns', 1, Len(conns)) = conns
             /\ queue' = queue
        /\ Len(queue') > Len(queue) =>
             /\ mainPc = "dispatch" /\ mainPc' = "accept"
             /\ queue' = Append(queue, Len(conns))]_vars

\* The third connection is accepted and not yet dispatched; the jobs of the
\* first two wait in the channel in the order of their connections.
C17_Witness ==
  /\ mainPc = "dispatch"
  /\ Len(conns) = 3
  /\ queue = <<1, 2>>
  /\ ~Submitted(3)

----------------------------------------------------------------------------
\* Jobs that never return.

\* Worker w is inside a job whose read never completes.
Blocked(w) ==
  IF wjob[w] \in Jobs
  THEN wpc[w] = "read" /\ ReadOutcome(conns[wjob[w]]) = "block"
  ELSE FALSE

\* Job j has been received and never returns.
Blocking(j) == Executing(j) /\ ReadOutcome(conns[j]) = "block"

\* The server is running, k >= 1 Workers are blocked, and a Worker is alive
\* and not blocked.
SomeBlockedSomeFree ==
  /\ Running
  /\ \E w \in WorkerIds : Blocked(w)
  /\ \E w \in WorkerIds : Alive(w) /\ ~Blocked(w)

\* C16: a job that never returns takes one Worker and no more. Blocked
\* Workers and never-returning jobs are equally many, and a blocked Worker
\* stays blocked; under fair scheduling, in every behaviour in which again
\* and again the server is running with some Worker blocked and some Worker
\* alive and not blocked (blocked and dead Workers stay so: k < n for good),
\* every submitted job is eventually received and called.
C16_BlockedJobStarvesOneWorker ==
  /\ [](Cardinality({w \in WorkerIds : Blocked(w)})
          = Cardinality({j \in Jobs : Blocking(j)}))
  /\ [][\A w \in WorkerIds : Blocked(w) => Blocked(w)']_vars
  /\ \A j \in 1 .. MaxJobs :
       ([]<>SomeBlockedSomeFree) => []<>(Submitted(j) => Ran(j))

\* In a pool of two, one Worker is blocked in the first job and the two
\* jobs submitted after it have both returned.
C16_Witness ==
  /\ size = 2
  /\ Len(conns) = 3
  /\ \E w \in WorkerIds : Blocked(w) /\ wjob[w] = 1
  /\ outcome[2] = "returned" /\ outcome[3] = "returned"

\* The handler of job j can take no further step: it has returned or
\* panicked, or it waits for ever for a line.
Settled(j) == outcome[j] # "pending" \/ ReadOutcome(conns[j]) = "block"

\* C18: the outcome of handling a connection depends on its request line
\* only. Of two connections with the same request line, whatever follows
\* it, the handlers end the same way (both return, both panic or both never
\* finish) and write the same response.
C18_OutcomeDependsOnRequestLineOnly ==
  (/\ Len(conns) = 2
   /\ SameRequestLine(conns[1], conns[2])
   /\ Settled(1) /\ Settled(2))
    => (outcome[1] = outcome[2] /\ resp[1] = resp[2])

=============================================================================
